---------------------------- MODULE Spec2Model ----------------------------
(***************************************************************************)
(* A model of the regex engine of codecrafters-grep-rust:                  *)
(*   - src/src/parser.rs   Parser (pattern text -> RegexNode tree)         *)
(*   - src/src/matcher.rs  match_with_state / match_node                   *)
(*   - src/src/lib.rs      is_match                                        *)
(*   - src/src/main.rs     the command-line program, with its own copy of  *)
(*                         the parser and of a position-only matcher       *)
(*                                                                         *)
(* Characters are one-character strings; a pattern or an input is a        *)
(* sequence of characters.  The parser's position is a byte offset, as in  *)
(* the code; the matcher's positions are 0-based character offsets.        *)
(***************************************************************************)
EXTENDS Integers, Sequences, FiniteSets, TLC

VARIABLES
    pattern,      \* the pattern text handed to is_match / main
    input,        \* the input characters handed to is_match
    pc,           \* position of is_match: "parse", "loop", "call", "done"
    ast,          \* lib.rs: the tree returned by Parser::parse
    ppos,         \* Parser.pos when parse returned
    pgid,         \* Parser.next_group_id when parse returned
    plog,         \* history: the moves of Parser.pos and the iterations of its loops
    start,        \* lib.rs: the loop variable of is_match
    stack,        \* the call stack of match_with_state (top is the last frame)
    ret,          \* the Vec<MatchState> returned by the call that has just returned
    last,         \* history: the call that has just returned ret (its node, its
                  \* input state, its locals, and what the last call it made returned)
    tried,        \* history: each start tried with the Vec<usize> match_node returned
    result,       \* what is_match returned (read once pc = "done")
    cli           \* the command-line program: whether it exited, its argv[1], the
                  \* line it read from stdin and its exit code

vars == <<pattern, input, pc, ast, ppos, pgid, plog, start, stack, ret, last,
          tried, result, cli>>

-----------------------------------------------------------------------------
(* Characters *)

None == "None"   \* Option::None of peek()/advance(); no character is spelled so

Digits == {"0", "1", "2", "3", "4", "5", "6", "7", "8", "9"}

Letters == {"a", "b", "c", "d", "e", "f", "g", "h", "i", "j", "k", "l", "m",
            "n", "o", "p", "q", "r", "s", "t", "u", "v", "w", "x", "y", "z",
            "A", "B", "C", "D", "E", "F", "G", "H", "I", "J", "K", "L", "M",
            "N", "O", "P", "Q", "R", "S", "T", "U", "V", "W", "X", "Y", "Z",
            "e'"}

\* The characters that take two bytes in UTF-8 ("e'" stands for U+00E9).
TwoByteChars == {"e'"}

len_utf8(c) == IF c \in TwoByteChars THEN 2 ELSE 1

is_digit(c) == c \in Digits

is_ascii_digit(c) == c \in Digits

is_alphanumeric(c) == c \in Letters \cup Digits

\* c as u8 - b'0'
DigitValue(c) == CHOOSE n \in 0..9 : <<"0", "1", "2", "3", "4", "5", "6", "7", "8", "9">>[n + 1] = c

RECURSIVE ByteLen(_)
ByteLen(s) == IF s = <<>> THEN 0 ELSE len_utf8(Head(s)) + ByteLen(Tail(s))

\* The byte offset at which the i-th character (1-based) of s starts.
ByteOffset(s, i) == ByteLen(SubSeq(s, 1, i - 1))


-----------------------------------------------------------------------------
(* ast.rs: RegexNode and RepeatKind *)

ZeroOrOne == "ZeroOrOne"

OneOrMore == "OneOrMore"

SeqNode(nodes) == [type |-> "Seq", nodes |-> nodes]

Alt(branches) == [type |-> "Alt", nodes |-> branches]

Repeat(node, kind) == [type |-> "Repeat", node |-> node, kind |-> kind]

Group(id, node) == [type |-> "Group", id |-> id, node |-> node]

BackRef(id) == [type |-> "BackRef", id |-> id]

StartAnchor == [type |-> "StartAnchor"]

EndAnchor == [type |-> "EndAnchor"]

Dot == [type |-> "Dot"]

Digit == [type |-> "Digit"]

Word == [type |-> "Word"]

CharClass(chars, negated) == [type |-> "CharClass", chars |-> chars, negated |-> negated]

Literal(c) == [type |-> "Literal", c |-> c]

-----------------------------------------------------------------------------
(* parser.rs: Parser.  The mutable Parser {pos, next_group_id} is threaded  *)
(* through the operators as the record s; s.log is the history of the      *)
(* parser: <<"advance", pos before, pos after>> for every call of advance   *)
(* that moved pos, and <<loop, pos before, pos after>> for every iteration  *)
(* of a while loop.                                                         *)

Parser_new == [pos |-> 0, gid |-> 1, log |-> <<>>]

\* One more iteration of the named loop, begun at byte offset `before`.
Logged(s, loop, before) == [s EXCEPT !.log = Append(@, <<loop, before, s.pos>>)]

\* An allocator that never increments next_group_id.
alloc_group_id_same(s) == [id |-> s.gid, s |-> s]

alloc_group_id(s) == [id |-> s.gid, s |-> [s EXCEPT !.gid = @ + 1]]

\* self.pattern[self.pos..].chars().next(): the character that starts at byte
\* offset pos, None at the end of the pattern.
peek(p, pos) ==
    IF \E i \in 1..Len(p) : ByteOffset(p, i) = pos
    THEN p[CHOOSE i \in 1..Len(p) : ByteOffset(p, i) = pos]
    ELSE None

\* An advance that moves pos by one byte whatever the character.
advance_one_byte(p, s) ==
    LET ch == peek(p, s.pos)
    IN  IF ch = None
        THEN [ch |-> None, s |-> s]
        ELSE [ch |-> ch, s |-> Logged([s EXCEPT !.pos = @ + 1], "advance", s.pos)]

advance(p, s) ==
    LET ch == peek(p, s.pos)
    IN  IF ch = None
        THEN [ch |-> None, s |-> s]
        ELSE [ch |-> ch, s |-> Logged([s EXCEPT !.pos = @ + len_utf8(ch)], "advance", s.pos)]

expect(p, s, expected) ==
    IF peek(p, s.pos) = expected
    THEN [ok |-> TRUE, s |-> advance(p, s).s]
    ELSE [ok |-> FALSE, s |-> s]

\* The while loop of parse_char_class.
RECURSIVE parse_char_class_loop(_, _, _)
parse_char_class_loop(p, s, chars_in_class) ==
    LET ch == peek(p, s.pos)
    IN  IF ch = None \/ ch = "]"
        THEN [chars |-> chars_in_class, s |-> s]
        ELSE LET a == advance(p, s)
             IN  parse_char_class_loop(p, Logged(a.s, "class", s.pos),
                                       Append(chars_in_class, a.ch))

parse_char_class(p, s) ==
    LET s1 == advance(p, s).s
        negated == peek(p, s1.pos) = "^"
        s2 == IF negated THEN advance(p, s1).s ELSE s1
        r == parse_char_class_loop(p, s2, <<>>)
        s3 == expect(p, r.s, "]").s
    IN  [node |-> CharClass(r.chars, negated), s |-> s3]

\* Each call below hands what it returns to the operator that continues the
\* caller's body.
RECURSIVE parse_alt(_, _), parse_alt_loop(_, _, _), parse_seq(_, _),
          parse_seq_loop(_, _, _), parse_repeat(_, _), parse_atom(_, _)

\* The escape arm of parse_atom, after the backslash is consumed.
parse_escape(p, a) ==
    CASE a.ch = "d" -> [node |-> Digit, s |-> a.s]
      [] a.ch = "w" -> [node |-> Word, s |-> a.s]
      [] a.ch # None /\ is_ascii_digit(a.ch) /\ a.ch # "0" ->
            [node |-> BackRef(DigitValue(a.ch)), s |-> a.s]
      [] a.ch = None -> [node |-> Literal("\\"), s |-> a.s]
      [] OTHER -> [node |-> Literal(a.ch), s |-> a.s]

\* The group arm of parse_atom after parse_alt returned r: expect(')')
parse_group_close(p, id, r) ==
    [node |-> Group(id, r.node), s |-> expect(p, r.s, ")").s]

\* The group arm of parse_atom after alloc_group_id returned g
parse_group(p, g) == parse_group_close(p, g.id, parse_alt(p, g.s))

parse_atom(p, s) ==
    LET c == peek(p, s.pos)
    IN  CASE c = "(" -> parse_group(p, alloc_group_id(advance(p, s).s))
          [] c = "[" -> parse_char_class(p, s)
          [] c = "\\" -> parse_escape(p, advance(p, advance(p, s).s))
          [] c = "." -> [node |-> Dot, s |-> advance(p, s).s]
          [] c = "^" -> [node |-> StartAnchor, s |-> advance(p, s).s]
          [] c = "$" -> [node |-> EndAnchor, s |-> advance(p, s).s]
          [] c = None -> [node |-> SeqNode(<<>>), s |-> s]
          [] OTHER -> [node |-> Literal(c), s |-> advance(p, s).s]

\* parse_repeat after parse_atom returned r
parse_quantifier(p, r) ==
    LET c == peek(p, r.s.pos)
    IN  CASE c = "?" -> [node |-> Repeat(r.node, ZeroOrOne), s |-> advance(p, r.s).s]
          [] c = "+" -> [node |-> Repeat(r.node, OneOrMore), s |-> advance(p, r.s).s]
          [] OTHER -> r

parse_repeat(p, s) == parse_quantifier(p, parse_atom(p, s))

\* nodes.push(r), and the next iteration of the while loop of parse_seq
parse_seq_push(p, before, nodes, r) ==
    parse_seq_loop(p, Logged(r.s, "seq", before), Append(nodes, r.node))

\* The while loop of parse_seq.
parse_seq_loop(p, s, nodes) ==
    LET ch == peek(p, s.pos)
    IN  IF ch = None \/ ch = ")" \/ ch = "|"
        THEN [nodes |-> nodes, s |-> s]
        ELSE parse_seq_push(p, s.pos, nodes, parse_repeat(p, s))

SeqResult(r) == [node |-> SeqNode(r.nodes), s |-> r.s]

parse_seq(p, s) == SeqResult(parse_seq_loop(p, s, <<>>))

\* branches.push(r), and the next iteration of the while loop of parse_alt
parse_alt_push(p, before, branches, r) ==
    parse_alt_loop(p, Logged(r.s, "alt", before), Append(branches, r.node))

\* The while loop of parse_alt.
parse_alt_loop(p, s, branches) ==
    IF peek(p, s.pos) = "|"
    THEN parse_alt_push(p, s.pos, branches, parse_seq(p, advance(p, s).s))
    ELSE [branches |-> branches, s |-> s]

AltResult(r) ==
    [node |-> IF Len(r.branches) = 1 THEN r.branches[1] ELSE Alt(r.branches),
     s |-> r.s]

\* parse_alt after the first parse_seq returned r0
parse_alt_rest(p, r0) == AltResult(parse_alt_loop(p, r0.s, <<r0.node>>))

parse_alt(p, s) == parse_alt_rest(p, parse_seq(p, s))

parse(p, s) == parse_alt(p, s)

-----------------------------------------------------------------------------
(* matcher.rs: MatchState, max_group_id and the arms of match_with_state    *)
(* that call nothing.  captures is the Vec<Option<(usize, usize)>>: slot id *)
(* of the code is captures[id + 1] here; <<>> is Option::None and <<s, e>>  *)
(* is Some((s, e)).  input[k] of the code is input[k + 1] here.             *)

MatchState(pos, captures) == [pos |-> pos, captures |-> captures]

NoCapture == <<>>

Max(a, b) == IF a >= b THEN a ELSE b

RECURSIVE max_group_id(_)
max_group_id(node) ==
    LET RECURSIVE MaxOver(_)
        \* v.iter().map(max_group_id).max().unwrap_or(0)
        MaxOver(v) == IF v = <<>> THEN 0
                      ELSE Max(max_group_id(Head(v)), MaxOver(Tail(v)))
    IN  CASE node.type = "Group" -> Max(node.id, max_group_id(node.node))
          [] node.type \in {"Seq", "Alt"} -> MaxOver(node.nodes)
          [] node.type = "Repeat" -> max_group_id(node.node)
          [] OTHER -> 0

\* let mut next = state.clone(); next.pos += n; vec![next]
Advanced(state, n) == <<[state EXCEPT !.pos = @ + n]>>

match_literal(c, inp, state) ==
    IF state.pos < Len(inp) /\ inp[state.pos + 1] = c
    THEN Advanced(state, 1) ELSE <<>>

match_dot(inp, state) ==
    IF state.pos < Len(inp) THEN Advanced(state, 1) ELSE <<>>

match_digit(inp, state) ==
    IF state.pos < Len(inp) /\ is_digit(inp[state.pos + 1])
    THEN Advanced(state, 1) ELSE <<>>

match_word(inp, state) ==
    IF state.pos < Len(inp)
       /\ (is_alphanumeric(inp[state.pos + 1]) \/ inp[state.pos + 1] = "_")
    THEN Advanced(state, 1) ELSE <<>>

match_char_class(chars, negated, inp, state) ==
    IF state.pos >= Len(inp) THEN <<>>
    ELSE LET contains == \E k \in 1..Len(chars) : chars[k] = inp[state.pos + 1]
         IN  IF (negated /\ ~contains) \/ (~negated /\ contains)
             THEN Advanced(state, 1) ELSE <<>>

match_start_anchor(inp, state) ==
    IF state.pos = 0 THEN <<state>> ELSE <<>>

\* An end anchor that succeeds at every position.
match_end_anchor_anywhere(inp, state) == <<state>>

match_end_anchor(inp, state) ==
    IF state.pos = Len(inp) THEN <<state>> ELSE <<>>

\* input[a..b] of the code: the characters at offsets a .. b-1.
Slice(inp, a, b) == SubSeq(inp, a + 1, b)

\* A backreference that compares the length of the captured span only.
match_backref_any_text(id, inp, state) ==
    IF id >= Len(state.captures) THEN <<>>
    ELSE LET cap == state.captures[id + 1]
         IN  IF cap = NoCapture THEN <<>>
             ELSE IF state.pos + (cap[2] - cap[1]) <= Len(inp)
                  THEN Advanced(state, cap[2] - cap[1]) ELSE <<>>

\* A backreference that matches the empty text when its capture is not set.
match_backref_unset_empty(id, inp, state) ==
    IF id >= Len(state.captures) THEN <<>>
    ELSE LET cap == state.captures[id + 1]
         IN  IF cap = NoCapture THEN <<state>>
             ELSE IF state.pos + (cap[2] - cap[1]) <= Len(inp)
                     /\ Slice(inp, cap[1], cap[2])
                            = Slice(inp, state.pos, state.pos + (cap[2] - cap[1]))
                  THEN Advanced(state, cap[2] - cap[1]) ELSE <<>>

match_backref(id, inp, state) ==
    IF id >= Len(state.captures) THEN <<>>
    ELSE LET cap == state.captures[id + 1]
         IN  IF cap = NoCapture THEN <<>>
             ELSE LET s == cap[1]
                      e == cap[2]
                      len == e - s
                  IN  IF state.pos + len <= Len(inp)
                         /\ Slice(inp, s, e) = Slice(inp, state.pos, state.pos + len)
                      THEN Advanced(state, len) ELSE <<>>

\* The arm of match_with_state for a node without children.
match_leaf(node, inp, state) ==
    CASE node.type = "Literal" -> match_literal(node.c, inp, state)
      [] node.type = "Dot" -> match_dot(inp, state)
      [] node.type = "Digit" -> match_digit(inp, state)
      [] node.type = "Word" -> match_word(inp, state)
      [] node.type = "CharClass" -> match_char_class(node.chars, node.negated, inp, state)
      [] node.type = "StartAnchor" -> match_start_anchor(inp, state)
      [] node.type = "EndAnchor" -> match_end_anchor(inp, state)
      [] node.type = "BackRef" -> match_backref(node.id, inp, state)

LeafTypes == {"Literal", "Dot", "Digit", "Word", "CharClass", "StartAnchor",
              "EndAnchor", "BackRef"}

\* The body of the for loop of the Group arm: ns.captures[id] = Some((start, end)).
\* A capture that is written only into a slot that is not set yet.
group_capture_once(id, start_pos, ns) ==
    IF id < Len(ns.captures) /\ ns.captures[id + 1] = NoCapture
    THEN [ns EXCEPT !.captures[id + 1] = <<start_pos, ns.pos>>]
    ELSE ns

group_capture(id, start_pos, ns) ==
    IF id < Len(ns.captures)
    THEN [ns EXCEPT !.captures[id + 1] = <<start_pos, ns.pos>>]
    ELSE ns

\* Vec::sort_by_key(|s| s.pos): a stable sort, by insertion from the left.
RECURSIVE sort_by_key(_)
sort_by_key(v) ==
    IF v = <<>> THEN <<>>
    ELSE LET x == v[Len(v)]
             rest == sort_by_key(SubSeq(v, 1, Len(v) - 1))
             \* x goes after every element whose key is not larger
             n == Cardinality({k \in 1..Len(rest) : rest[k].pos <= x.pos})
         IN  SubSeq(rest, 1, n) \o <<x>> \o SubSeq(rest, n + 1, Len(rest))

\* A dedup that keeps the last of consecutive elements with the same key.
RECURSIVE dedup_by_key_last(_)
dedup_by_key_last(v) ==
    IF Len(v) <= 1 THEN v
    ELSE LET rest == dedup_by_key_last(SubSeq(v, 1, Len(v) - 1))
             x == v[Len(v)]
         IN  IF rest[Len(rest)].pos = x.pos
             THEN Append(SubSeq(rest, 1, Len(rest) - 1), x)
             ELSE Append(rest, x)

\* Vec::dedup_by_key(|s| s.pos): of consecutive elements with the same key
\* the first is kept.
RECURSIVE dedup_by_key(_)
dedup_by_key(v) ==
    IF Len(v) <= 1 THEN v
    ELSE LET rest == dedup_by_key(SubSeq(v, 1, Len(v) - 1))
             x == v[Len(v)]
         IN  IF rest[Len(rest)].pos = x.pos THEN rest ELSE Append(rest, x)

\* for st in &frontier { if !results.iter().any(|r| r.pos == st.pos) { results.push(st.clone()); } }
RECURSIVE push_new(_, _)
push_new(results, frontier) ==
    IF frontier = <<>> THEN results
    ELSE LET st == Head(frontier)
         IN  push_new(IF \E k \in 1..Len(results) : results[k].pos = st.pos
                      THEN results ELSE Append(results, st),
                      Tail(frontier))

\* .into_iter().map(|s| s.pos).collect()
Positions(states) == [k \in 1..Len(states) |-> states[k].pos]

-----------------------------------------------------------------------------
(* matcher.rs: match_with_state as a stack machine.  A frame is one call of *)
(* match_with_state(node, input, state) with its local variables:           *)
(*   i        Seq: index of the child n; Alt: index of the branch br;       *)
(*            OneOrMore: 0 before the while loop, 1 inside it               *)
(*   j        index of st in the inner for loop over states / frontier      *)
(*   states   Seq: states; OneOrMore: frontier                              *)
(*   acc      Seq: next_states; Alt: all_states; OneOrMore: next            *)
(*   results  OneOrMore: results                                            *)
(*   rounds   history: the iterations of the while loop of OneOrMore begun, *)
(*            counted up to Len(input) + 1                                  *)
(*   raw      history: the Vec that sort_by_key and dedup_by_key were last   *)
(*            applied to in this call, as it was before them                *)
(*   seen     history, OneOrMore: the positions of the frontiers so far     *)
(*   fresh    history, OneOrMore: how many states of the current frontier   *)
(*            were pushed to results                                        *)
(* A frame is at "enter" when the call begins and at "wait" while a call it *)
(* made is running; ret holds what that call returned.                      *)

Frame(node, state) ==
    [node |-> node, state |-> state, at |-> "enter", i |-> 0, j |-> 0,
     states |-> <<>>, acc |-> <<>>, results |-> <<>>, rounds |-> 0, raw |-> <<>>,
     seen |-> {}, fresh |-> 0]

Top == stack[Len(stack)]

Running == pc = "call" /\ stack # <<>>

\* The frame makes the call match_with_state(node, input, state).
CallOut(f, node, state) ==
    [call |-> TRUE, frame |-> [f EXCEPT !.at = "wait"], node |-> node,
     state |-> state, value |-> <<>>]

\* The frame returns value.
RetOut(value) ==
    [call |-> FALSE, frame |-> <<>>, node |-> <<>>, state |-> <<>>, value |-> value]

NoCall == [returned |-> FALSE]

Apply(o) ==
    IF o.call
    THEN /\ stack' = Append([stack EXCEPT ![Len(stack)] = o.frame],
                            Frame(o.node, o.state))
         /\ ret' = <<>>
         /\ last' = NoCall
    ELSE /\ stack' = SubSeq(stack, 1, Len(stack) - 1)
         /\ ret' = o.value
         /\ last' = [returned |-> TRUE, frame |-> Top, got |-> ret]

Frozen == UNCHANGED <<pattern, input, pc, ast, ppos, pgid, plog, start, tried,
                      result, cli>>

\* Literal, Dot, Digit, Word, CharClass, StartAnchor, EndAnchor, BackRef
MatchLeaf ==
    /\ Running
    /\ Top.node.type \in LeafTypes
    /\ Apply(RetOut(match_leaf(Top.node, input, Top.state)))
    /\ Frozen

\* Group: the call match_with_state(node, input, state)
group_enter(f) == CallOut(f, f.node.node, f.state)

\* Group: the for loop over what the call returned
group_resume(f, r) ==
    RetOut([k \in 1..Len(r) |-> group_capture(f.node.id, f.state.pos, r[k])])

GroupEnter ==
    /\ Running
    /\ Top.node.type = "Group" /\ Top.at = "enter"
    /\ Apply(group_enter(Top))
    /\ Frozen

GroupResume ==
    /\ Running
    /\ Top.node.type = "Group" /\ Top.at = "wait"
    /\ Apply(group_resume(Top, ret))
    /\ Frozen

\* Seq: the head of `for n in nodes`, with f.i children done and f.states current
seq_next_child(f) ==
    IF f.i >= Len(f.node.nodes)
    THEN RetOut(f.states)
    ELSE CallOut([f EXCEPT !.i = @ + 1, !.j = 1, !.acc = <<>>],
                 f.node.nodes[f.i + 1], f.states[1])

\* A sequence that fails when it has no children.
seq_enter_nonempty(f) ==
    IF f.node.nodes = <<>> THEN RetOut(<<>>)
    ELSE seq_next_child([f EXCEPT !.states = <<f.state>>, !.i = 0])

seq_enter(f) == seq_next_child([f EXCEPT !.states = <<f.state>>, !.i = 0])

\* Seq: next_states.extend(r), then the rest of the inner loop and of the body
seq_resume(f, r) ==
    LET next_states == f.acc \o r
    IN  IF f.j < Len(f.states)
        THEN CallOut([f EXCEPT !.acc = next_states, !.j = @ + 1],
                     f.node.nodes[f.i], f.states[f.j + 1])
        ELSE IF next_states = <<>>
             THEN RetOut(<<>>)
             ELSE seq_next_child([f EXCEPT
                      !.states = dedup_by_key(sort_by_key(next_states)),
                      !.acc = <<>>,
                      !.raw = next_states])

SeqEnter ==
    /\ Running
    /\ Top.node.type = "Seq" /\ Top.at = "enter"
    /\ Apply(seq_enter(Top))
    /\ Frozen

SeqResume ==
    /\ Running
    /\ Top.node.type = "Seq" /\ Top.at = "wait"
    /\ Apply(seq_resume(Top, ret))
    /\ Frozen

\* Alt: the head of `for br in branches`, with f.i branches done
alt_next_branch(f) ==
    IF f.i >= Len(f.node.nodes)
    THEN RetOut(dedup_by_key(sort_by_key(f.acc)))
    ELSE CallOut([f EXCEPT !.i = @ + 1], f.node.nodes[f.i + 1], f.state)

alt_enter(f) == alt_next_branch([f EXCEPT !.acc = <<>>, !.i = 0])

\* An alternation that stops after its first branch.
alt_resume_first(f, r) == RetOut(dedup_by_key(sort_by_key(f.acc \o r)))

alt_resume(f, r) == alt_next_branch([f EXCEPT !.acc = @ \o r])

AltEnter ==
    /\ Running
    /\ Top.node.type = "Alt" /\ Top.at = "enter"
    /\ Apply(alt_enter(Top))
    /\ Frozen

AltResume ==
    /\ Running
    /\ Top.node.type = "Alt" /\ Top.at = "wait"
    /\ Apply(alt_resume(Top, ret))
    /\ Frozen

IsRepeat(f, kind) == f.node.type = "Repeat" /\ f.node.kind = kind

\* Repeat, ZeroOrOne
zero_or_one_enter(f) == CallOut(f, f.node.node, f.state)

zero_or_one_resume(f, r) ==
    RetOut(dedup_by_key(sort_by_key(<<f.state>> \o r)))

ZeroOrOneEnter ==
    /\ Running
    /\ IsRepeat(Top, ZeroOrOne) /\ Top.at = "enter"
    /\ Apply(zero_or_one_enter(Top))
    /\ Frozen

ZeroOrOneResume ==
    /\ Running
    /\ IsRepeat(Top, ZeroOrOne) /\ Top.at = "wait"
    /\ Apply(zero_or_one_resume(Top, ret))
    /\ Frozen

\* Repeat, OneOrMore: `let mut frontier = match_with_state(inner, input, state)`
one_or_more_enter(f) ==
    CallOut([f EXCEPT !.results = <<>>, !.i = 0, !.rounds = 0, !.seen = {}, !.fresh = 0],
            f.node.node, f.state)

\* A repetition that yields the input state when its inner node does not
\* match at all (zero or more).
one_or_more_while_star(f, frontier) ==
    IF frontier = <<>>
    THEN RetOut(IF f.i = 0 THEN <<f.state>> ELSE f.results)
    ELSE CallOut([f EXCEPT !.states = frontier,
                           !.results = push_new(@, frontier),
                           !.acc = <<>>,
                           !.i = 1,
                           !.j = 1,
                           !.rounds = IF @ <= Len(input) THEN @ + 1 ELSE @,
                           !.seen = @ \cup {frontier[k].pos : k \in 1..Len(frontier)},
                           !.fresh = Len(push_new(f.results, frontier)) - Len(f.results)],
                 f.node.node, frontier[1])

\* OneOrMore: the head of `while !frontier.is_empty()`, up to the first call of
\* the second for loop
one_or_more_while(f, frontier) ==
    IF frontier = <<>>
    THEN RetOut(f.results)
    ELSE CallOut([f EXCEPT !.states = frontier,
                           !.results = push_new(@, frontier),
                           !.acc = <<>>,
                           !.i = 1,
                           !.j = 1,
                           !.rounds = IF @ <= Len(input) THEN @ + 1 ELSE @,
                           !.seen = @ \cup {frontier[k].pos : k \in 1..Len(frontier)},
                           !.fresh = Len(push_new(f.results, frontier)) - Len(f.results)],
                 f.node.node, frontier[1])

\* OneOrMore: a call returned r, either the one before the loop (i = 0)
\* or one of `for st in &frontier { next.extend(..) }`
one_or_more_resume(f, r) ==
    IF f.i = 0
    THEN one_or_more_while(f, r)
    ELSE LET next == f.acc \o r
         IN  IF f.j < Len(f.states)
             THEN CallOut([f EXCEPT !.acc = next, !.j = @ + 1],
                          f.node.node, f.states[f.j + 1])
             ELSE one_or_more_while([f EXCEPT !.raw = next],
                                    dedup_by_key(sort_by_key(next)))

OneOrMoreEnter ==
    /\ Running
    /\ IsRepeat(Top, OneOrMore) /\ Top.at = "enter"
    /\ Apply(one_or_more_enter(Top))
    /\ Frozen

OneOrMoreResume ==
    /\ Running
    /\ IsRepeat(Top, OneOrMore) /\ Top.at = "wait"
    /\ Apply(one_or_more_resume(Top, ret))
    /\ Frozen

-----------------------------------------------------------------------------
(* lib.rs: is_match, and matcher.rs: match_node *)

Unparsed == [type |-> "Unparsed"]

\* Parser::new(pattern), p.parse(), input.chars().collect()
Parse ==
    /\ pc = "parse"
    /\ ast' = parse(pattern, Parser_new).node
    /\ ppos' = parse(pattern, Parser_new).s.pos
    /\ pgid' = parse(pattern, Parser_new).s.gid
    /\ plog' = parse(pattern, Parser_new).s.log
    /\ start' = 0
    /\ pc' = "loop"
    /\ UNCHANGED <<pattern, input, stack, ret, last, tried, result, cli>>

\* MatchState { pos: start, captures: vec![None; max_id + 1] }
\* An initial state with one capture slot too few.
match_node_init_short(node, s) ==
    MatchState(s, [k \in 1..max_group_id(node) |-> NoCapture])

match_node_init(node, s) ==
    MatchState(s, [k \in 1..(max_group_id(node) + 1) |-> NoCapture])

\* One iteration of `for start in 0..=chars.len()` enters match_node.
MatchNodeCall ==
    /\ pc = "loop"
    /\ stack' = <<Frame(ast, match_node_init(ast, start))>>
    /\ ret' = <<>>
    /\ last' = NoCall
    /\ pc' = "call"
    /\ UNCHANGED <<pattern, input, ast, ppos, pgid, plog, start, tried, result, cli>>

\* The last start of 0..=n.
\* The loop with the half-open range 0..chars.len(), which leaves the last
\* start out.
last_start_exclusive(n) == n - 1

\* The last start of `for start in 0..=chars.len()`.
last_start(n) == n

\* match_node returns; is_match returns true, goes on to the next start, or
\* returns false after the last one.
MatchNodeReturn ==
    /\ pc = "call"
    /\ stack = <<>>
    /\ tried' = Append(tried, [start |-> start, ends |-> Positions(ret)])
    /\ IF Positions(ret) # <<>>
       THEN result' = TRUE /\ pc' = "done" /\ start' = start
       ELSE IF start < last_start(Len(input))
            THEN result' = result /\ pc' = "loop" /\ start' = start + 1
            ELSE result' = FALSE /\ pc' = "done" /\ start' = start
    /\ ret' = <<>>
    /\ last' = NoCall
    /\ UNCHANGED <<pattern, input, ast, ppos, pgid, plog, stack, cli>>

-----------------------------------------------------------------------------
(* main.rs: the command-line program.  It has its own Parser, whose groups  *)
(* do not capture and which knows no backreference, and its own match_node  *)
(* over positions.  peek, advance, expect, parse_char_class and the         *)
(* quantifier half of parse_repeat are the same text in both files and are  *)
(* the operators above.                                                     *)

RECURSIVE cli_parse_alt(_, _), cli_parse_alt_loop(_, _, _), cli_parse_seq(_, _),
          cli_parse_seq_loop(_, _, _), cli_parse_repeat(_, _), cli_parse_atom(_, _)

\* The escape arm of main.rs's parse_atom, after the backslash is consumed.
cli_parse_escape(p, a) ==
    CASE a.ch = "d" -> [node |-> Digit, s |-> a.s]
      [] a.ch = "w" -> [node |-> Word, s |-> a.s]
      [] a.ch = None -> [node |-> Literal("\\"), s |-> a.s]
      [] OTHER -> [node |-> Literal(a.ch), s |-> a.s]

\* The group arm after parse_alt returned r: expect(')'), and the node itself
cli_parse_group_close(p, r) == [node |-> r.node, s |-> expect(p, r.s, ")").s]

cli_parse_atom(p, s) ==
    LET c == peek(p, s.pos)
    IN  CASE c = "(" -> cli_parse_group_close(p, cli_parse_alt(p, advance(p, s).s))
          [] c = "[" -> parse_char_class(p, s)
          [] c = "\\" -> cli_parse_escape(p, advance(p, advance(p, s).s))
          [] c = "." -> [node |-> Dot, s |-> advance(p, s).s]
          [] c = "^" -> [node |-> StartAnchor, s |-> advance(p, s).s]
          [] c = "$" -> [node |-> EndAnchor, s |-> advance(p, s).s]
          [] c = None -> [node |-> SeqNode(<<>>), s |-> s]
          [] OTHER -> [node |-> Literal(c), s |-> advance(p, s).s]

cli_parse_repeat(p, s) == parse_quantifier(p, cli_parse_atom(p, s))

cli_parse_seq_push(p, before, nodes, r) ==
    cli_parse_seq_loop(p, Logged(r.s, "seq", before), Append(nodes, r.node))

cli_parse_seq_loop(p, s, nodes) ==
    LET ch == peek(p, s.pos)
    IN  IF ch = None \/ ch = ")" \/ ch = "|"
        THEN [nodes |-> nodes, s |-> s]
        ELSE cli_parse_seq_push(p, s.pos, nodes, cli_parse_repeat(p, s))

cli_parse_seq(p, s) == SeqResult(cli_parse_seq_loop(p, s, <<>>))

cli_parse_alt_push(p, before, branches, r) ==
    cli_parse_alt_loop(p, Logged(r.s, "alt", before), Append(branches, r.node))

cli_parse_alt_loop(p, s, branches) ==
    IF peek(p, s.pos) = "|"
    THEN cli_parse_alt_push(p, s.pos, branches, cli_parse_seq(p, advance(p, s).s))
    ELSE [branches |-> branches, s |-> s]

cli_parse_alt_rest(p, r0) == AltResult(cli_parse_alt_loop(p, r0.s, <<r0.node>>))

cli_parse_alt(p, s) == cli_parse_alt_rest(p, cli_parse_seq(p, s))

cli_parse(p) == cli_parse_alt(p, Parser_new).node

\* sort_unstable() and then dedup() of a Vec<usize>: its distinct elements,
\* ascending.
RECURSIVE sort_unstable_dedup(_)
sort_unstable_dedup(v) ==
    IF v = <<>> THEN <<>>
    ELSE LET m == CHOOSE x \in {v[k] : k \in 1..Len(v)} :
                      \A k \in 1..Len(v) : x <= v[k]
         IN  <<m>> \o sort_unstable_dedup(SelectSeq(v, LAMBDA x : x # m))

\* The arms of main.rs's match_node for a node without children.
cli_match_leaf(node, inp, pos) ==
    CASE node.type = "Literal" ->
            IF pos < Len(inp) /\ inp[pos + 1] = node.c THEN <<pos + 1>> ELSE <<>>
      [] node.type = "Dot" ->
            IF pos < Len(inp) THEN <<pos + 1>> ELSE <<>>
      [] node.type = "Digit" ->
            IF pos < Len(inp) /\ is_digit(inp[pos + 1]) THEN <<pos + 1>> ELSE <<>>
      [] node.type = "Word" ->
            IF pos < Len(inp) /\ (is_alphanumeric(inp[pos + 1]) \/ inp[pos + 1] = "_")
            THEN <<pos + 1>> ELSE <<>>
      [] node.type = "CharClass" ->
            IF pos >= Len(inp) THEN <<>>
            ELSE LET contains == \E k \in 1..Len(node.chars) : node.chars[k] = inp[pos + 1]
                 IN  IF (node.negated /\ ~contains) \/ (~node.negated /\ contains)
                     THEN <<pos + 1>> ELSE <<>>
      [] node.type = "StartAnchor" -> IF pos = 0 THEN <<pos>> ELSE <<>>
      [] node.type = "EndAnchor" -> IF pos = Len(inp) THEN <<pos>> ELSE <<>>

\* for p in &frontier { if !results.contains(p) { results.push(*p); } }
RECURSIVE cli_push_new(_, _)
cli_push_new(results, frontier) ==
    IF frontier = <<>> THEN results
    ELSE cli_push_new(IF \E k \in 1..Len(results) : results[k] = Head(frontier)
                      THEN results ELSE Append(results, Head(frontier)),
                      Tail(frontier))

RECURSIVE cli_match_node(_, _, _), cli_extend_each(_, _, _, _), cli_seq_loop(_, _, _),
          cli_alt_loop(_, _, _, _), cli_while(_, _, _, _)

\* for p in positions { next.extend(match_node(n, input, p)) }, next being acc
cli_extend_each(n, inp, positions, acc) ==
    IF positions = <<>> THEN acc
    ELSE cli_extend_each(n, inp, Tail(positions),
                         acc \o cli_match_node(n, inp, Head(positions)))

\* The rest of the body of `for n in nodes` once next_positions is filled
cli_seq_step(rest, inp, next_positions) ==
    IF next_positions = <<>> THEN <<>>
    ELSE cli_seq_loop(rest, inp, sort_unstable_dedup(next_positions))

\* for n in nodes, with the nodes still to do
cli_seq_loop(nodes, inp, positions) ==
    IF nodes = <<>> THEN positions
    ELSE cli_seq_step(Tail(nodes), inp,
                      cli_extend_each(Head(nodes), inp, positions, <<>>))

\* for br in branches, with the branches still to do
cli_alt_loop(branches, inp, pos, all_positions) ==
    IF branches = <<>> THEN sort_unstable_dedup(all_positions)
    ELSE cli_alt_loop(Tail(branches), inp, pos,
                      all_positions \o cli_match_node(Head(branches), inp, pos))

\* while !frontier.is_empty()
cli_while(inner, inp, results, frontier) ==
    IF frontier = <<>> THEN sort_unstable_dedup(results)
    ELSE cli_while(inner, inp, cli_push_new(results, frontier),
                   sort_unstable_dedup(cli_extend_each(inner, inp, frontier, <<>>)))

cli_match_node(node, inp, pos) ==
    CASE node.type = "Seq" -> cli_seq_loop(node.nodes, inp, <<pos>>)
      [] node.type = "Alt" -> cli_alt_loop(node.nodes, inp, pos, <<>>)
      [] node.type = "Repeat" /\ node.kind = ZeroOrOne ->
            sort_unstable_dedup(<<pos>> \o cli_match_node(node.node, inp, pos))
      [] node.type = "Repeat" /\ node.kind = OneOrMore ->
            cli_while(node.node, inp, <<>>, cli_match_node(node.node, inp, pos))
      [] OTHER -> cli_match_leaf(node, inp, pos)

\* for start in 0..=input_chars.len(), from start on
RECURSIVE cli_match_from(_, _, _)
cli_match_from(node, inp, s) ==
    IF s > Len(inp) THEN FALSE
    ELSE IF cli_match_node(node, inp, s) # <<>> THEN TRUE
         ELSE cli_match_from(node, inp, s + 1)

match_pattern(input_line, pat) == cli_match_from(cli_parse(pat), input_line, 0)

\* str::trim_end_matches('\n')
RECURSIVE trim_end_matches(_, _)
trim_end_matches(line, c) ==
    IF line # <<>> /\ line[Len(line)] = c
    THEN trim_end_matches(SubSeq(line, 1, Len(line) - 1), c)
    ELSE line

\* main: the exit code, given argv[1], argv[2] and the line read from stdin
main(flag, pat, input_line) ==
    IF flag # "-E" THEN 1
    ELSE IF match_pattern(trim_end_matches(input_line, "\n"), pat) THEN 0 ELSE 1

NotRun == [exited |-> FALSE, flag |-> "", line |-> <<>>, code |-> 0]

\* One run of the program on the pattern and on the input as the line of
\* stdin, with or without its newline.  The two programs share nothing; the
\* run is placed after is_match returned so that one state holds both answers.
CliMain ==
    /\ pc = "done"
    /\ ~cli.exited
    /\ \E flag \in {"-E", "-e"}, newline \in BOOLEAN :
          LET input_line == IF newline THEN Append(input, "\n") ELSE input
          IN  cli' = [exited |-> TRUE, flag |-> flag, line |-> input_line,
                      code |-> main(flag, pattern, input_line)]
    /\ UNCHANGED <<pattern, input, pc, ast, ppos, pgid, plog, start, stack, ret,
                   last, tried, result>>

-----------------------------------------------------------------------------
(* The runs: one call is_match(input, pattern) per behaviour. *)

MaxPatLen == 3

MaxInputLen == 2

\* All sequences over A of length at most n.
StringsUpTo(A, n) == UNION {[1..k -> A] : k \in 0..n}

PatAlphabet == {"a", "b", "(", ")", "|", "?", "+"}

InAlphabet == {"a", "b"}

\* The scenarios of the specification's section 8, and patterns longer than
\* MaxPatLen that exercise groups, backreferences, classes and anchors.
Scenarios ==
    { <<<<"a", "+", "b", "?", "c">>, <<"a", "a", "a", "b", "c">>>>,
      <<<<"a", "+", "b", "?", "c">>, <<"b", "c">>>>,
      <<<<"(", "c", "a", "t", ")", " ", "a", "n", "d", " ", "\\", "1">>,
        <<"c", "a", "t", " ", "a", "n", "d", " ", "c", "a", "t">>>>,
      <<<<"(", "c", "a", "t", ")", " ", "a", "n", "d", " ", "\\", "1">>,
        <<"c", "a", "t", " ", "a", "n", "d", " ", "d", "o", "g">>>>,
      <<<<"^", "a", "b", "c", "$">>, <<"a", "b", "c">>>>,
      <<<<"^", "a", "b", "c", "$">>, <<"x", "a", "b", "c">>>>,
      <<<<"^", "a", "b", "c", "$">>, <<"a", "b", "c", "x">>>>,
      <<<<"^", "a", "b", "c", "$">>, <<"a", "b">>>>,
      <<<<"c", "a", "t", "|", "d", "o", "g">>, <<"a", " ", "d", "o", "g">>>>,
      <<<<"[", "^", "a", "e", "]">>, <<"a", "x">>>>,
      <<<<"(", "a", "(", "b", ")", "c", ")", "\\", "2">>, <<"a", "b", "c", "b">>>>,
      <<<<"(", "a", "(", "b", ")", "c", ")">>, <<"a", "b", "c">>>>,
      <<<<"(", "a", "?", ")", "(", "a", "?", ")">>, <<"a">>>>,
      <<<<"(", "a", "|", "a", "a", ")", "+">>, <<"a", "a", "a">>>>,
      <<<<"(", "a", ")", "+">>, <<"a", "a", "a">>>>,
      <<<<"\\", "1", "(", "a", ")">>, <<"a", "a">>>>,
      <<<<"(", "a", ")", "\\", "2">>, <<"a", "a">>>>,
      <<<<"(", "a", ")", "(", "(", "b", ")", "+", ")">>, <<"a", "b", "b">>>>,
      <<<<"\\", "d", "\\", "w", ".">>, <<"1", "_", "e'">>>> }

Cases == Scenarios \cup (StringsUpTo(PatAlphabet, MaxPatLen) \X StringsUpTo(InAlphabet, MaxInputLen))

InitWith(C) ==
    /\ \E c \in C : pattern = c[1] /\ input = c[2]
    /\ pc = "parse"
    /\ ast = Unparsed
    /\ ppos = 0
    /\ pgid = 1
    /\ plog = <<>>
    /\ start = 0
    /\ stack = <<>>
    /\ ret = <<>>
    /\ last = NoCall
    /\ tried = <<>>
    /\ result = FALSE
    /\ cli = NotRun

Init == InitWith(Cases)

Next ==
    \/ Parse
    \/ MatchNodeCall
    \/ MatchNodeReturn
    \/ MatchLeaf
    \/ GroupEnter
    \/ GroupResume
    \/ SeqEnter
    \/ SeqResume
    \/ AltEnter
    \/ AltResume
    \/ ZeroOrOneEnter
    \/ ZeroOrOneResume
    \/ OneOrMoreEnter
    \/ OneOrMoreResume

Spec == Init /\ [][Next]_vars

\* The parser alone decides these runs: every construct of the pattern
\* language, a two-byte character included, against the empty input.
MaxParseLen == 4

ParseAlphabet == {"e'", "(", ")", "|", "\\", "[", "]"}

\* More patterns the parser has to be permissive with, and one with a nested
\* group and a group to its right.
ParseExtra ==
    { <<"?">>, <<"?", "a">>, <<"(", "?">>, <<"a", "|", "?">>, <<"[", "^">>,
      <<"[", "^", "a">>, <<"[", "]", "]">>, <<"a", "\\">>, <<"^", "+">>,
      <<"(", "a", "(", "b">>, <<"a", ")", "(", "b", ")">>,
      <<"e'", "+">>, <<"+">>, <<"(", "+", ")">>, <<"[", "+", "]", "+">>,
      <<"(", "(", ")", ")", "(", ")">> }

ParseCases ==
    Scenarios \cup ((StringsUpTo(ParseAlphabet, MaxParseLen) \cup ParseExtra) \X {<<>>})

InitParse == InitWith(ParseCases)

SpecParse == InitParse /\ [][Next]_vars

\* Patterns (G)M\1: a group of literals, literals, a backreference to the group.
MaxGroupLen == 2

MaxMidLen == 1

MaxLineLen == 4

Literals(n) == StringsUpTo(InAlphabet, n)

BackRefPattern(g, m) == <<"(">> \o g \o <<")">> \o m \o <<"\\", "1">>

BackRefCases ==
    Scenarios \cup
    ({BackRefPattern(g, m) : g \in Literals(MaxGroupLen) \ {<<>>}, m \in Literals(MaxMidLen)}
        \X Literals(MaxLineLen))

InitBackRef == InitWith(BackRefCases)

SpecBackRef == InitBackRef /\ [][Next]_vars

\* Patterns ^L$ for a literal L.
MaxLiteralLen == 3

AnchoredPattern(l) == <<"^">> \o l \o <<"$">>

AnchorCases ==
    Scenarios \cup
    ({AnchoredPattern(l) : l \in Literals(MaxLiteralLen)} \X Literals(MaxLiteralLen + 1))

InitAnchor == InitWith(AnchorCases)

SpecAnchor == InitAnchor /\ [][Next]_vars

\* Patterns with backreferences before, inside and without their group.
UnsetAlphabet == {"a", "(", ")", "\\", "1"}

UnsetCases ==
    Scenarios \cup
    (StringsUpTo(UnsetAlphabet, MaxPatLen) \X StringsUpTo({"a", "1"}, MaxInputLen))

InitUnset == InitWith(UnsetCases)

SpecUnset == InitUnset /\ [][Next]_vars

\* Patterns whose repetitions are mostly over groups, for the runs under fairness.
FairAlphabet == {"a", "(", ")", "+", "?"}

FairCases == Scenarios \cup (StringsUpTo(FairAlphabet, MaxPatLen) \X StringsUpTo({"a"}, MaxInputLen))

InitFair == InitWith(FairCases)

\* The steps of one call of match_node, its return included.
MatchStep ==
    \/ MatchLeaf
    \/ GroupEnter
    \/ GroupResume
    \/ SeqEnter
    \/ SeqResume
    \/ AltEnter
    \/ AltResume
    \/ ZeroOrOneEnter
    \/ ZeroOrOneResume
    \/ OneOrMoreEnter
    \/ OneOrMoreResume
    \/ MatchNodeReturn

\* match_node is one sequential call: it waits on nothing, so a step of it
\* that can be taken is taken.  This is weak fairness of MatchStep with
\* ENABLED <<MatchStep>>_vars written out: a step of match_node can be taken
\* exactly while pc = "call".
MatchFairness == []<>(pc # "call") \/ []<><<MatchStep>>_vars

FairSpec == InitFair /\ [][Next]_vars /\ MatchFairness /\ WF_vars(MatchNodeReturn)

\* The patterns run through the command-line program as well.
CliAlphabet == {"a", "(", ")", "|", "?", "\\", "1"}

CliCases == Scenarios \cup (StringsUpTo(CliAlphabet, MaxPatLen) \X StringsUpTo({"a", "1"}, MaxInputLen))

NextCli == Next \/ CliMain

InitCli == InitWith(CliCases)

SpecCli == InitCli /\ [][NextCli]_vars

-----------------------------------------------------------------------------
(* The reference matcher of the specification: path-by-path backtracking   *)
(* over the tree, one position at a time, with no state sets.  k is the    *)
(* continuation: the nodes still to be matched from pos, in order.         *)

char_test(node, c) ==
    CASE node.type = "Literal" -> c = node.c
      [] node.type = "Dot" -> TRUE
      [] node.type = "Digit" -> c \in Digits
      [] node.type = "Word" -> c \in Letters \cup Digits \cup {"_"}
      [] node.type = "CharClass" ->
            (c \in {node.chars[i] : i \in 1..Len(node.chars)}) # node.negated

RECURSIVE backtrack(_, _, _)
backtrack(k, inp, pos) ==
    IF k = <<>> THEN TRUE
    ELSE LET node == Head(k)
             rest == Tail(k)
         IN  CASE node.type = "Seq" -> backtrack(node.nodes \o rest, inp, pos)
               [] node.type = "Alt" ->
                     \E b \in 1..Len(node.nodes) :
                         backtrack(<<node.nodes[b]>> \o rest, inp, pos)
               [] node.type = "Repeat" /\ node.kind = ZeroOrOne ->
                     \/ backtrack(<<node.node>> \o rest, inp, pos)
                     \/ backtrack(rest, inp, pos)
               [] node.type = "Repeat" /\ node.kind = OneOrMore ->
                     \/ backtrack(<<node.node, node>> \o rest, inp, pos)
                     \/ backtrack(<<node.node>> \o rest, inp, pos)
               [] OTHER ->
                     /\ pos < Len(inp)
                     /\ char_test(node, inp[pos + 1])
                     /\ backtrack(rest, inp, pos + 1)

reference_is_match(node, inp) == \E s \in 0..Len(inp) : backtrack(<<node>>, inp, s)

\* The tree has no group, no backreference and no anchor.
RECURSIVE Plain(_)
Plain(node) ==
    CASE node.type \in {"Seq", "Alt"} -> \A i \in 1..Len(node.nodes) : Plain(node.nodes[i])
      [] node.type = "Repeat" -> Plain(node.node)
      [] OTHER -> node.type \in {"Literal", "Dot", "Digit", "Word", "CharClass"}

-----------------------------------------------------------------------------
(* The claims *)

\* C1: every matcher invocation terminates: every call of match_node that
\* is_match makes returns after finitely many steps, also when the node under
\* a one-or-more repetition can match zero-width.
C1_MatchNodeReturns == (pc = "call") ~> (pc # "call")

\* C2: when is_match returns, it has tried the start offsets 0, 1, 2, .. in
\* increasing order, every start before the last one tried gave an empty
\* match_node, it returned true exactly when the last one tried gave a
\* non-empty match_node, and it returned false only after trying every offset
\* from 0 to the length of the input, that length included.
C2_IsMatchIffSomeStart ==
    pc = "done" =>
        /\ Len(tried) = start + 1
        /\ start <= Len(input)
        /\ \A k \in 1..Len(tried) : tried[k].start = k - 1
        /\ \A k \in 1..(Len(tried) - 1) : tried[k].ends = <<>>
        /\ result = (tried[Len(tried)].ends # <<>>)
        /\ ~result => Len(tried) = Len(input) + 1

\* is_match returned true at a start other than 0, after empty starts.
C2_Witness == pc = "done" /\ result /\ start >= 1 /\ Len(tried) = start + 1

\* C3: for a pattern without groups, backreferences and anchors, is_match
\* returns what the path-by-path backtracking matcher returns on the same tree
\* and input.
C3_AgreesWithBacktracking ==
    (pc = "done" /\ Plain(ast)) => (result = reference_is_match(ast, input))

\* Both matchers accept an alternation of two branches that match the same
\* text, at a start other than 0.
C3_Witness ==
    /\ pc = "done" /\ Plain(ast) /\ result
    /\ start >= 1 /\ tried[Len(tried)].ends # <<start>>
    /\ ast.type = "Alt" /\ Len(ast.nodes) = 2 /\ ast.nodes[1] = ast.nodes[2]

\* The characters with a meaning of their own in a pattern.
Special == {"(", ")", "|", "?", "+", "\\", "[", "]", ".", "^", "$"}

IsLiteralText(w) == \A i \in 1..Len(w) : w[i] \notin Special

\* w occurs in inp as a run of consecutive characters.
Occurs(w, inp) ==
    \E s \in 0..(Len(inp) - Len(w)) : SubSeq(inp, s + 1, s + Len(w)) = w

\* pat is (G)M\1 for literal texts G and M.
IsGroupThenBackRef(pat, g, m) ==
    /\ IsLiteralText(g) /\ IsLiteralText(m)
    /\ pat = <<"(">> \o g \o <<")">> \o m \o <<"\\", "1">>

\* The call that has just returned is of a BackRef node whose capture is set.
BackRefReturned ==
    /\ last.returned
    /\ last.frame.node.type = "BackRef"
    /\ last.frame.node.id < Len(last.frame.state.captures)
    /\ last.frame.state.captures[last.frame.node.id + 1] # NoCapture

\* C4: a pattern (G)M\1 of a group of literals G, literals M and a
\* backreference matches exactly the inputs in which the text G M G occurs;
\* `(cat) and \1` matches "cat and cat" and not "cat and dog"; and a BackRef
\* node whose capture is the span (s,e) succeeds from position p exactly when
\* p+(e-s) <= len and the characters at p.. equal those at s..e one by one,
\* and then yields the single position p+(e-s).
C4_BackRefRepeatsCapture ==
    /\ pc = "done" =>
          \A i \in 1..Len(pattern), j \in 1..Len(pattern) :
              LET g == SubSeq(pattern, 2, i)
                  m == SubSeq(pattern, i + 2, j)
              IN  IsGroupThenBackRef(pattern, g, m) =>
                      (result = Occurs(g \o m \o g, input))
    /\ (pc = "done" /\ pattern = <<"(", "c", "a", "t", ")", " ", "a", "n", "d", " ", "\\", "1">>) =>
          /\ input = <<"c", "a", "t", " ", "a", "n", "d", " ", "c", "a", "t">> => result
          /\ input = <<"c", "a", "t", " ", "a", "n", "d", " ", "d", "o", "g">> => ~result
    /\ BackRefReturned =>
          LET p == last.frame.state.pos
              s == last.frame.state.captures[last.frame.node.id + 1][1]
              e == last.frame.state.captures[last.frame.node.id + 1][2]
              same == /\ p + (e - s) <= Len(input)
                      /\ \A i \in 1..(e - s) : input[p + i] = input[s + i]
          IN  /\ (ret # <<>>) = same
              /\ ret # <<>> => Len(ret) = 1 /\ ret[1].pos = p + (e - s)

\* A backreference to a non-empty capture has just succeeded, away from the
\* captured span.
C4_Witness ==
    /\ BackRefReturned
    /\ ret # <<>>
    /\ ret[1].pos > last.frame.state.pos
    /\ last.frame.state.pos > last.frame.state.captures[last.frame.node.id + 1][2]

\* The Group ids of a tree, in the order a left-to-right walk meets the
\* groups, a group before the groups inside it.
RECURSIVE group_ids(_)
group_ids(node) ==
    LET RECURSIVE Over(_)
        Over(nodes) == IF nodes = <<>> THEN <<>>
                       ELSE group_ids(Head(nodes)) \o Over(Tail(nodes))
    IN  CASE node.type \in {"Seq", "Alt"} -> Over(node.nodes)
          [] node.type = "Repeat" -> group_ids(node.node)
          [] node.type = "Group" -> <<node.id>> \o group_ids(node.node)
          [] OTHER -> <<>>

IdSet(node) == {group_ids(node)[k] : k \in 1..Len(group_ids(node))}

\* Every group's id is below the ids inside it, and the ids under a child of
\* a Seq or Alt are below the ids under the children to its right.
RECURSIVE Ordered(_)
Ordered(node) ==
    CASE node.type \in {"Seq", "Alt"} ->
            /\ \A i \in 1..Len(node.nodes) : Ordered(node.nodes[i])
            /\ \A i \in 1..Len(node.nodes), j \in 1..Len(node.nodes) :
                   i < j => \A a \in IdSet(node.nodes[i]), b \in IdSet(node.nodes[j]) : a < b
      [] node.type = "Repeat" -> Ordered(node.node)
      [] node.type = "Group" ->
            Ordered(node.node) /\ \A b \in IdSet(node.node) : node.id < b
      [] OTHER -> TRUE

\* The number of opening parentheses that open a group (not escaped, not
\* inside a [ ] set) among the characters of w from the i-th on that start
\* before byte offset upto.
RECURSIVE group_opens(_, _, _, _)
group_opens(w, i, mode, upto) ==
    IF i > Len(w) \/ ByteOffset(w, i) >= upto THEN 0
    ELSE CASE mode = "escape" -> group_opens(w, i + 1, "atom", upto)
           [] mode = "set" ->
                 group_opens(w, i + 1, IF w[i] = "]" THEN "atom" ELSE "set", upto)
           [] OTHER ->
                 CASE w[i] = "(" -> 1 + group_opens(w, i + 1, "atom", upto)
                   [] w[i] = "\\" -> group_opens(w, i + 1, "escape", upto)
                   [] w[i] = "[" -> group_opens(w, i + 1, "set", upto)
                   [] OTHER -> group_opens(w, i + 1, "atom", upto)

OnBoundary(w, pos) == pos = ByteLen(w) \/ \E i \in 1..Len(w) : ByteOffset(w, i) = pos

RECURSIVE IsRegexNode(_)
IsRegexNode(node) ==
    CASE node.type \in {"Seq", "Alt"} -> \A i \in 1..Len(node.nodes) : IsRegexNode(node.nodes[i])
      [] node.type \in {"Repeat", "Group"} -> IsRegexNode(node.node)
      [] OTHER -> node.type \in LeafTypes

\* The moves of the parser position, in order.
Advances == SelectSeq(plog, LAMBDA e : e[1] = "advance")

\* C6: parse returns a tree for every pattern, the malformed ones included;
\* the parser position starts at 0, changes only by moving forward from one
\* character boundary to a later one, never passes the end of the pattern,
\* and every iteration of a loop of the parser ends at a position after the
\* one it began at.
C6_ParserTotal ==
    pc # "parse" =>
        /\ IsRegexNode(ast)
        /\ ppos <= ByteLen(pattern) /\ OnBoundary(pattern, ppos)
        /\ \A k \in 1..Len(plog) :
               /\ plog[k][2] < plog[k][3]
               /\ plog[k][3] <= ByteLen(pattern)
               /\ OnBoundary(pattern, plog[k][2]) /\ OnBoundary(pattern, plog[k][3])
        /\ \A k \in 1..Len(Advances) :
               Advances[k][2] = (IF k = 1 THEN 0 ELSE Advances[k - 1][3])
        /\ ppos = (IF Advances = <<>> THEN 0 ELSE Advances[Len(Advances)][3])

\* An unterminated set with a two-byte character in it has been parsed to
\* the end of the pattern.
C6_Witness ==
    /\ pc # "parse"
    /\ Len(pattern) >= 3 /\ pattern[1] = "[" /\ pattern[2] = "e'"
    /\ \A i \in 1..Len(pattern) : pattern[i] # "]"
    /\ ast.type = "Seq" /\ Len(ast.nodes) = 1 /\ ast.nodes[1].type = "CharClass"
    /\ ppos = ByteLen(pattern)
    /\ \E k \in 1..Len(plog) : plog[k][1] = "class"

\* pat is ^L$ for the literal text l.
IsAnchoredLiteral(pat, l) ==
    /\ Len(pat) >= 2 /\ pat[1] = "^" /\ pat[Len(pat)] = "$"
    /\ l = SubSeq(pat, 2, Len(pat) - 1)
    /\ IsLiteralText(l)

\* The call that has just returned is of a node of this type.
Returned(type) == last.returned /\ last.frame.node.type = type

\* C7: a pattern ^L$ with L literal characters matches exactly the input L;
\* `^abc$` matches "abc" and not "xabc", "abcx", "ab"; a StartAnchor yields a
\* state exactly at position 0, an EndAnchor exactly at the position equal to
\* the input length, and the state each yields is its input state unchanged.
C7_AnchorsPinBothEnds ==
    /\ pc = "done" =>
          (IsAnchoredLiteral(pattern, SubSeq(pattern, 2, Len(pattern) - 1)) =>
              (result = (input = SubSeq(pattern, 2, Len(pattern) - 1))))
    /\ (pc = "done" /\ pattern = <<"^", "a", "b", "c", "$">>) =>
          /\ input = <<"a", "b", "c">> => result
          /\ input \in {<<"x", "a", "b", "c">>, <<"a", "b", "c", "x">>, <<"a", "b">>} => ~result
    /\ Returned("StartAnchor") =>
          ret = (IF last.frame.state.pos = 0 THEN <<last.frame.state>> ELSE <<>>)
    /\ Returned("EndAnchor") =>
          ret = (IF last.frame.state.pos = Len(input) THEN <<last.frame.state>> ELSE <<>>)

\* An EndAnchor has just succeeded at the end of an input of at least two
\* characters that a pattern ^L$ has matched from its start.
C7_Witness ==
    /\ IsAnchoredLiteral(pattern, input)
    /\ Len(input) >= 2
    /\ Returned("EndAnchor")
    /\ ret # <<>>
    /\ start = 0

\* The call that has just returned is of a repetition of this kind.
RepeatReturned(kind) == Returned("Repeat") /\ last.frame.node.kind = kind

\* The states of v, as a set.
States(v) == {v[k] : k \in 1..Len(v)}

\* C8: `a+b?c` matches "aaabc" and not "bc"; a one-or-more repetition whose
\* inner node does not match at the start position yields no state; and the
\* states of a zero-or-one repetition are its input state, unchanged,
\* together with the states of one application of its inner node (those at
\* another position than the input state).
C8_PlusNeedsOneOptionalKeepsInput ==
    /\ (pc = "done" /\ pattern = <<"a", "+", "b", "?", "c">>) =>
          /\ input = <<"a", "a", "a", "b", "c">> => result
          /\ input = <<"b", "c">> => ~result
    /\ (RepeatReturned(OneOrMore) /\ last.frame.i = 0 /\ last.got = <<>>) => ret = <<>>
    /\ (RepeatReturned(OneOrMore) /\ ret # <<>>) => last.frame.i = 1
    /\ RepeatReturned(ZeroOrOne) =>
          States(ret) = {last.frame.state}
                          \cup {st \in States(last.got) : st.pos # last.frame.state.pos}

\* In `a+b?c` on "aaabc" the optional b has just returned its input state and
\* the state after b.
C8_Witness ==
    /\ pattern = <<"a", "+", "b", "?", "c">>
    /\ RepeatReturned(ZeroOrOne)
    /\ Len(ret) = 2
    /\ ret[1] = last.frame.state

\* C9: the empty pattern parses to the empty Seq, match_node on it from
\* offset 0 returns exactly the end position 0, and is_match is true for
\* every input, the empty input included.
C9_EmptyPatternMatches ==
    pattern = <<>> =>
        /\ pc # "parse" => ast = SeqNode(<<>>)
        /\ pc = "done" => result /\ tried = <<[start |-> 0, ends |-> <<0>>]>>

\* is_match has returned for the empty pattern on a non-empty input.
C9_Witness == pattern = <<>> /\ pc = "done" /\ result /\ input # <<>>

\* C10: the command-line program, run with -E on the pattern and on the
\* input as its line of stdin (with or without the trailing newline), exits
\* with code 0 exactly when is_match(input, pattern) is true and with code 1
\* exactly when it is false.
C10_ExitCodeIsIsMatch ==
    (cli.exited /\ cli.flag = "-E") =>
        /\ cli.code \in {0, 1}
        /\ (cli.code = 0) = result

\* No two states of v have the same position.
Distinct(v) == \A i \in 1..Len(v), j \in 1..Len(v) : v[i].pos = v[j].pos => i = j

\* kept is raw with, for every position, the first state of raw at that
\* position and no other.
Retained(kept, raw) ==
    /\ Distinct(kept)
    /\ {kept[k].pos : k \in 1..Len(kept)} = {raw[i].pos : i \in 1..Len(raw)}
    /\ \A k \in 1..Len(kept) : \E i \in 1..Len(raw) :
           /\ kept[k] = raw[i]
           /\ \A h \in 1..(i - 1) : raw[h].pos # raw[i].pos

\* The states a call in progress retains.
FrameDedup(f) ==
    CASE f.node.type = "Seq" /\ f.at = "wait" ->
            Distinct(f.states) /\ (f.i >= 2 => Retained(f.states, f.raw))
      [] IsRepeat(f, OneOrMore) /\ f.at = "wait" /\ f.i = 1 ->
            /\ Distinct(f.states) /\ Distinct(f.results)
            /\ f.rounds >= 2 => Retained(f.states, f.raw)
      [] OTHER -> TRUE

\* C11: after each child of a Seq, after an Alt, after a zero-or-one and
\* after each round of a one-or-more, no two retained states have the same
\* position, and the state retained for a position is, capture table
\* included, the first one generated with that position: the one of the
\* earliest predecessor state, of the earliest branch, the unchanged input
\* state of a zero-or-one.
C11_FirstStatePerPositionKept ==
    /\ pc = "call" => \A d \in 1..Len(stack) : FrameDedup(stack[d])
    /\ (Returned("Seq") /\ last.frame.at = "wait") =>
          Retained(ret, last.frame.acc \o last.got)
    /\ Returned("Alt") => Retained(ret, last.frame.acc \o last.got)
    /\ RepeatReturned(ZeroOrOne) => Retained(ret, <<last.frame.state>> \o last.got)
    /\ RepeatReturned(OneOrMore) => Distinct(ret)

\* A Seq has just returned, of two states generated at the same position
\* from different predecessor states and with different capture tables, the
\* first.
C11_Witness ==
    /\ Returned("Seq") /\ last.frame.at = "wait"
    /\ LET raw == last.frame.acc \o last.got
       IN  \E i \in 1..Len(raw), j \in 1..Len(raw) :
              /\ i < j
              /\ raw[i].pos = raw[j].pos
              /\ raw[i].captures # raw[j].captures
              /\ \E k \in 1..Len(ret) : ret[k] = raw[i]

\* Every application of the node consumes at least one character.
RECURSIVE Consuming(_)
Consuming(node) ==
    CASE node.type = "Seq" -> \E i \in 1..Len(node.nodes) : Consuming(node.nodes[i])
      [] node.type = "Alt" -> \A i \in 1..Len(node.nodes) : Consuming(node.nodes[i])
      [] node.type = "Group" -> Consuming(node.node)
      [] node.type = "Repeat" -> node.kind = OneOrMore /\ Consuming(node.node)
      [] OTHER -> node.type \in {"Literal", "Dot", "Digit", "Word", "CharClass"}

\* The frame is inside the while loop of a one-or-more repetition whose inner
\* node consumes.
InConsumingLoop(f) ==
    IsRepeat(f, OneOrMore) /\ f.at = "wait" /\ f.i = 1 /\ Consuming(f.node.node)

\* The loop started at position p runs at most (input length - p) rounds.
RoundsBounded ==
    /\ pc = "call" =>
          \A d \in 1..Len(stack) :
              InConsumingLoop(stack[d]) =>
                  stack[d].rounds <= Len(input) - stack[d].state.pos
    /\ (RepeatReturned(OneOrMore) /\ Consuming(last.frame.node.node)) =>
          last.frame.rounds <= Len(input) - last.frame.state.pos

\* The repetition returns exactly one state for each position that appeared
\* in a frontier.
OneStatePerFrontierPosition ==
    (RepeatReturned(OneOrMore) /\ Consuming(last.frame.node.node)) =>
        /\ Distinct(ret)
        /\ {ret[k].pos : k \in 1..Len(ret)} = last.frame.seen

\* The loop does not go on with a frontier that brought no new state.
StopsWithoutNewStates ==
    pc = "call" =>
        \A d \in 1..Len(stack) : InConsumingLoop(stack[d]) => stack[d].fresh >= 1

\* C12: a one-or-more repetition whose inner node always consumes at least
\* one character runs at most (input length - p) rounds from position p,
\* stops when the frontier is empty or brings no new state, and returns
\* exactly one state for each position that appeared in a frontier.
C12_FixpointBoundedByInput ==
    /\ RoundsBounded
    /\ OneStatePerFrontierPosition
    /\ StopsWithoutNewStates

\* C13: every state a Group with id g returns from a state at position p
\* has slot g equal to (p, position of that state), whatever slot g held
\* before; the slots of the groups that are not g and not inside g are as in
\* the input state; and under a one-or-more repetition of a group every
\* returned state carries the span of the last iteration: it ends at the
\* state's position and starts where that iteration started (`(a)+` on "aaa"
\* returns the spans (0,1), (1,2), (2,3)).
C13_CaptureLastWriteWins ==
    /\ Returned("Group") =>
          \A k \in 1..Len(ret) :
              /\ ret[k].captures[last.frame.node.id + 1] =
                     <<last.frame.state.pos, ret[k].pos>>
              /\ Len(ret[k].captures) = Len(last.frame.state.captures)
              /\ \A h \in 0..(Len(ret[k].captures) - 1) :
                     (h # last.frame.node.id /\ h \notin IdSet(last.frame.node.node)) =>
                         ret[k].captures[h + 1] = last.frame.state.captures[h + 1]
    /\ (RepeatReturned(OneOrMore) /\ last.frame.node.node.type = "Group") =>
          \A k \in 1..Len(ret) :
              LET span == ret[k].captures[last.frame.node.node.id + 1]
              IN  /\ span # NoCapture
                  /\ span[2] = ret[k].pos
                  /\ span[1] \in {last.frame.state.pos} \cup last.frame.seen
    /\ (RepeatReturned(OneOrMore) /\ Len(stack) = 1
          /\ pattern = <<"(", "a", ")", "+">> /\ input = <<"a", "a", "a">> /\ start = 0) =>
          [k \in 1..Len(ret) |-> ret[k].captures[2]] = <<<<0, 1>>, <<1, 2>>, <<2, 3>>>>

\* A Group has just overwritten the span its slot held with another span.
C13_Witness ==
    /\ Returned("Group")
    /\ last.frame.state.captures[last.frame.node.id + 1] # NoCapture
    /\ ret # <<>>
    /\ ret[1].captures[last.frame.node.id + 1] #
           last.frame.state.captures[last.frame.node.id + 1]
    /\ \E h \in 1..Len(ret[1].captures) :
           h # last.frame.node.id + 1 /\ ret[1].captures[h] # NoCapture

\* The backreference that has just returned had no capture to compare with:
\* its id is above the tree's maximum group id, or its slot was not set.
UnsetBackRefReturned ==
    /\ Returned("BackRef")
    /\ \/ last.frame.node.id > max_group_id(ast)
       \/ last.frame.node.id >= Len(last.frame.state.captures)
       \/ last.frame.state.captures[last.frame.node.id + 1] = NoCapture

\* C14: a BackRef whose id is above the tree's maximum group id, or whose
\* slot is not set in the current state, returns no state; the capture table
\* has (maximum group id + 1) slots, so an id above the maximum is one the
\* guard `id >= captures.len()` answers for; `\1(a)` and `(a)\2` match no
\* input.
C14_UnsetBackRefFails ==
    /\ UnsetBackRefReturned => ret = <<>>
    /\ Returned("BackRef") =>
          /\ Len(last.frame.state.captures) = max_group_id(ast) + 1
          /\ last.frame.node.id > max_group_id(ast) =>
                 last.frame.node.id >= Len(last.frame.state.captures)
    /\ (pc = "done" /\ pattern \in {<<"\\", "1", "(", "a", ")">>,
                                    <<"(", "a", ")", "\\", "2">>}) => ~result

\* A forward reference has just failed, away from position 0: the group
\* exists in the tree and its slot is not set yet.
C14_Witness ==
    /\ UnsetBackRefReturned
    /\ last.frame.node.id <= max_group_id(ast)
    /\ last.frame.state.pos >= 1
    /\ ret = <<>>

\* C15: when parse returns, the parser position is the length of the
\* pattern: every character of the pattern was consumed.
C15_ParserConsumesAll == pc # "parse" => ppos = ByteLen(pattern)

\* The states a frame holds.
FrameStates(f) ==
    {f.state} \cup States(f.states) \cup States(f.acc) \cup States(f.results)
        \cup States(f.raw)

\* The states the call of match_node in progress holds.
LiveStates ==
    States(ret) \cup UNION {FrameStates(stack[d]) : d \in 1..Len(stack)}

\* C16: every state produced during a call of match_node started at offset
\* start has start <= pos <= input length and a capture table of exactly
\* (maximum group id + 1) slots, slot 0 never set, every set capture (a,b)
\* with a <= b <= pos; so a BackRef about to run computes b - a without
\* underflow and its slices input[a..b] and input[pos..pos+(b-a)], the latter
\* behind the guard pos+(b-a) <= length, are within the input.
C16_MatchStateWellFormed ==
    pc = "call" =>
        /\ start <= Len(input)
        /\ \A st \in LiveStates :
               /\ start <= st.pos /\ st.pos <= Len(input)
               /\ Len(st.captures) = max_group_id(ast) + 1
               /\ st.captures[1] = NoCapture
               /\ \A h \in 1..Len(st.captures) :
                      st.captures[h] # NoCapture =>
                          /\ 0 <= st.captures[h][1]
                          /\ st.captures[h][1] <= st.captures[h][2]
                          /\ st.captures[h][2] <= st.pos

\* A BackRef is about to run from a state whose capture is a non-empty span
\* that ended before the state's position.
C16_Witness ==
    /\ Running
    /\ Top.node.type = "BackRef" /\ Top.at = "enter"
    /\ Top.node.id < Len(Top.state.captures)
    /\ Top.state.captures[Top.node.id + 1] # NoCapture
    /\ Top.state.captures[Top.node.id + 1][1] < Top.state.captures[Top.node.id + 1][2]
    /\ Top.state.captures[Top.node.id + 1][2] < Top.state.pos
    /\ start >= 1

=============================================================================
